---- MODULE Spec2Model ----
(***************************************************************************)
(* Model of the supply-chain optimization backend (convex/supplyChain.ts)  *)
(* and of the dashboard's scenario comparison (components/Dashboard.tsx).  *)
(*                                                                         *)
(* Numbers.  Every JavaScript number that can carry decimals is held as an *)
(* integer count of hundredths: F(2485, 25) is 2485.25 and F(850, 0) is    *)
(* 850.  A multiplication of two such numbers is Mul, which divides the    *)
(* product by 100 again.  Counts (array lengths, vehicle ids, Date.now())  *)
(* are plain integers.                                                     *)
(***************************************************************************)
EXTENDS Integers, Sequences, FiniteSets, TLC

\* ------------------------------------------------------------------ bounds

\* Math.random() is drawn from the grid k / RandSteps, k in 0 .. RandSteps-1.
RandSteps == 2

\* How many times processUploadedFiles and loadSampleData may be invoked.
MaxUploads == 1
MaxLoads == 1

\* How many rows direct saveMatrix calls may add to the matrices table.
MaxMatrices == 2

\* The clients that call runScenario, each at most once; calls of different
\* clients may be in flight together.
Callers == {"c1", "c2"}

\* The clients that call processUploadedFiles, one call at a time each.
Uploaders == {"u1"}

\* ------------------------------------------------------------ fixed point

F(whole, hundredths) == whole * 100 + hundredths

Mul(a, b) == (a * b) \div 100

\* {}: the object with no fields.
EmptyObject == <<>>

\* Whether obj.field is present (not undefined).
Has(obj, field) == field \in DOMAIN obj

\* JavaScript falsiness of a value: 0, false and "" are falsy (null and
\* undefined are the absent field and the empty object of the model); every
\* other number, string and object is truthy.  The value's printed form is
\* compared, so that values of any kind can be asked.
Falsy(value) == ToString(value) \in {ToString(0), ToString(FALSE), ToString("")}

\* JavaScript truthiness of obj.field: undefined, 0, false and "" are falsy.
TruthyField(obj, field) == Has(obj, field) /\ ~Falsy(obj[field])

\* obj.field || {}
FieldOrEmpty(obj, field) == IF TruthyField(obj, field) THEN obj[field] ELSE EmptyObject

\* { ...obj, ...over }: obj's fields, those of over replacing or extending them.
Spread(obj, over) ==
    [f \in DOMAIN obj \cup DOMAIN over |-> IF f \in DOMAIN over THEN over[f] ELSE obj[f]]

\* array.map(f)
Map(f(_), s) == [i \in 1..Len(s) |-> f(s[i])]

\* array.filter(p)
RECURSIVE Filter(_, _)
Filter(p(_), s) ==
    IF s = <<>> THEN <<>>
    ELSE IF p(Head(s)) THEN <<Head(s)>> \o Filter(p, Tail(s))
    ELSE Filter(p, Tail(s))

\* ------------------------------------------------- file processing (stubs)

\* Latitudes and longitudes are held in ten-thousandths of a degree.

processGeoLocationsFile ==
    << [locationId |-> "warehouse_1", name |-> "Central Distribution Hub",
        lat |-> 407128, lon |-> -740060, type |-> "warehouse", sheet |-> "Warehouses",
        attributes |-> [capacity_class |-> "large", automation_level |-> "high"]],
       [locationId |-> "warehouse_2", name |-> "Regional Warehouse North",
        lat |-> 418781, lon |-> -876298, type |-> "warehouse", sheet |-> "Warehouses",
        attributes |-> [capacity_class |-> "medium", automation_level |-> "medium"]],
       [locationId |-> "warehouse_3", name |-> "Regional Warehouse South",
        lat |-> 297604, lon |-> -953698, type |-> "warehouse", sheet |-> "Warehouses",
        attributes |-> [capacity_class |-> "medium", automation_level |-> "medium"]],
       [locationId |-> "store_1", name |-> "Metro Store Alpha",
        lat |-> 407589, lon |-> -739851, type |-> "store", sheet |-> "Stores",
        attributes |-> [store_type |-> "flagship", customer_segment |-> "premium"]],
       [locationId |-> "store_2", name |-> "Suburban Store Beta",
        lat |-> 406892, lon |-> -740445, type |-> "store", sheet |-> "Stores",
        attributes |-> [store_type |-> "standard", customer_segment |-> "general"]],
       [locationId |-> "store_3", name |-> "Urban Store Gamma",
        lat |-> 418781, lon |-> -876298, type |-> "store", sheet |-> "Stores",
        attributes |-> [store_type |-> "compact", customer_segment |-> "urban"]],
       [locationId |-> "store_4", name |-> "Mall Store Delta",
        lat |-> 423601, lon |-> -710589, type |-> "store", sheet |-> "Stores",
        attributes |-> [store_type |-> "mall", customer_segment |-> "family"]],
       [locationId |-> "store_5", name |-> "Outlet Store Epsilon",
        lat |-> 297604, lon |-> -953698, type |-> "store", sheet |-> "Stores",
        attributes |-> [store_type |-> "outlet", customer_segment |-> "value"]] >>

processCapacityClusteredFile ==
    << [locationId |-> "warehouse_1", capacity |-> F(3500, 0), sheet |-> "Capacity",
        attributes |-> [max_throughput |-> F(5000, 0), storage_type |-> "automated",
                        handling_equipment |-> "advanced"]],
       [locationId |-> "warehouse_2", capacity |-> F(2200, 0), sheet |-> "Capacity",
        attributes |-> [max_throughput |-> F(3000, 0), storage_type |-> "semi_automated",
                        handling_equipment |-> "standard"]],
       [locationId |-> "warehouse_3", capacity |-> F(2800, 0), sheet |-> "Capacity",
        attributes |-> [max_throughput |-> F(3800, 0), storage_type |-> "semi_automated",
                        handling_equipment |-> "standard"]] >>

processDemandClusterFile ==
    << [locationId |-> "store_1", demand |-> F(850, 0), period |-> "2024-01", sheet |-> "Demand",
        attributes |-> [seasonality_factor |-> F(1, 20), trend_component |-> F(0, 5),
                        economic_indicator |-> F(1, 10)]],
       [locationId |-> "store_2", demand |-> F(650, 0), period |-> "2024-01", sheet |-> "Demand",
        attributes |-> [seasonality_factor |-> F(0, 90), trend_component |-> F(0, 3),
                        economic_indicator |-> F(1, 0)]],
       [locationId |-> "store_3", demand |-> F(980, 0), period |-> "2024-01", sheet |-> "Demand",
        attributes |-> [seasonality_factor |-> F(1, 10), trend_component |-> F(0, 7),
                        economic_indicator |-> F(1, 15)]],
       [locationId |-> "store_4", demand |-> F(720, 0), period |-> "2024-01", sheet |-> "Demand",
        attributes |-> [seasonality_factor |-> F(1, 0), trend_component |-> F(0, 4),
                        economic_indicator |-> F(1, 5)]],
       [locationId |-> "store_5", demand |-> F(1100, 0), period |-> "2024-01", sheet |-> "Demand",
        attributes |-> [seasonality_factor |-> F(1, 30), trend_component |-> F(0, 8),
                        economic_indicator |-> F(1, 20)]] >>

\* Matrix entries are held in tenths (15.2 is 152); the time matrix in minutes.
processDistanceClusterFile ==
    [data |-> << <<0, 152, 287, 453, 621, 389, 524, 678>>,
                 <<152, 0, 221, 387, 553, 312, 448, 596>>,
                 <<287, 221, 0, 315, 482, 257, 393, 541>>,
                 <<453, 387, 315, 0, 189, 426, 298, 352>>,
                 <<621, 553, 482, 189, 0, 517, 384, 286>>,
                 <<389, 312, 257, 426, 517, 0, 163, 458>>,
                 <<524, 448, 393, 298, 384, 163, 0, 337>>,
                 <<678, 596, 541, 352, 286, 458, 337, 0>> >>,
     locationIds |-> <<"warehouse_1", "warehouse_2", "warehouse_3", "store_1",
                       "store_2", "store_3", "store_4", "store_5">>]

processTimeFile ==
    [data |-> << <<0, 25, 42, 68, 89, 58, 75, 95>>,
                 <<25, 0, 35, 58, 78, 48, 65, 85>>,
                 <<42, 35, 0, 48, 68, 38, 55, 75>>,
                 <<68, 58, 48, 0, 28, 62, 45, 52>>,
                 <<89, 78, 68, 28, 0, 72, 55, 42>>,
                 <<58, 48, 38, 62, 72, 0, 25, 68>>,
                 <<75, 65, 55, 45, 55, 25, 0, 48>>,
                 <<95, 85, 75, 52, 42, 68, 48, 0>> >>,
     locationIds |-> <<"warehouse_1", "warehouse_2", "warehouse_3", "store_1",
                       "store_2", "store_3", "store_4", "store_5">>]

processCostClusterFile ==
    << [fromLocationId |-> "warehouse_1", toLocationId |-> "store_1", cost |-> F(8, 50),
        sheet |-> "Costs", attributes |-> [fuel_cost |-> F(5, 20), driver_cost |-> F(3, 30)]],
       [fromLocationId |-> "warehouse_1", toLocationId |-> "store_2", cost |-> F(12, 75),
        sheet |-> "Costs", attributes |-> [fuel_cost |-> F(7, 80), driver_cost |-> F(4, 95)]],
       [fromLocationId |-> "warehouse_2", toLocationId |-> "store_3", cost |-> F(9, 25),
        sheet |-> "Costs", attributes |-> [fuel_cost |-> F(5, 65), driver_cost |-> F(3, 60)]],
       [fromLocationId |-> "warehouse_2", toLocationId |-> "store_4", cost |-> F(11, 40),
        sheet |-> "Costs", attributes |-> [fuel_cost |-> F(6, 95), driver_cost |-> F(4, 45)]],
       [fromLocationId |-> "warehouse_3", toLocationId |-> "store_5", cost |-> F(10, 80),
        sheet |-> "Costs", attributes |-> [fuel_cost |-> F(6, 60), driver_cost |-> F(4, 20)]] >>

processCostsMWCFile ==
    << [fromLocationId |-> "warehouse_1", toLocationId |-> "warehouse_2", cost |-> F(45, 50),
        sheet |-> "MWC_Costs",
        attributes |-> [transfer_cost |-> F(35, 0), handling_cost |-> F(10, 50)]],
       [fromLocationId |-> "warehouse_1", toLocationId |-> "warehouse_3", cost |-> F(52, 25),
        sheet |-> "MWC_Costs",
        attributes |-> [transfer_cost |-> F(40, 75), handling_cost |-> F(11, 50)]],
       [fromLocationId |-> "warehouse_2", toLocationId |-> "warehouse_3", cost |-> F(38, 75),
        sheet |-> "MWC_Costs",
        attributes |-> [transfer_cost |-> F(30, 25), handling_cost |-> F(8, 50)]] >>

\* ------------------------------------------------------ the ML pipeline

\* mlResults.demand_forecast.confidence_intervals with the two bound arrays
\* exchanged.
mlResults_confidence_intervalsExchanged ==
    [lower_bound |->
        <<F(132, 0), F(148, 0), F(156, 0), F(174, 0), F(181, 0), F(196, 0),
          F(203, 0), F(211, 0), F(225, 0), F(240, 0), F(247, 0), F(264, 0)>>,
     upper_bound |->
        <<F(108, 0), F(122, 0), F(128, 0), F(142, 0), F(149, 0), F(160, 0),
          F(167, 0), F(173, 0), F(185, 0), F(196, 0), F(203, 0), F(216, 0)>>]

\* mlResults.demand_forecast.confidence_intervals
mlResults_confidence_intervals ==
    [lower_bound |->
        <<F(108, 0), F(122, 0), F(128, 0), F(142, 0), F(149, 0), F(160, 0),
          F(167, 0), F(173, 0), F(185, 0), F(196, 0), F(203, 0), F(216, 0)>>,
     upper_bound |->
        <<F(132, 0), F(148, 0), F(156, 0), F(174, 0), F(181, 0), F(196, 0),
          F(203, 0), F(211, 0), F(225, 0), F(240, 0), F(247, 0), F(264, 0)>>]

\* mlResults.allocation.allocations with warehouse_3 sending store_1 only 700.
mlResults_allocationsShort ==
    [warehouse_1 |-> [store_1 |-> F(850, 0), store_2 |-> F(650, 0), store_3 |-> F(500, 0)],
     warehouse_2 |-> [store_2 |-> F(670, 0), store_3 |-> F(1480, 0), store_4 |-> F(850, 0)],
     warehouse_3 |-> [store_1 |-> F(700, 0), store_4 |-> F(600, 0), store_5 |-> F(1750, 0)]]

\* mlResults.allocation.allocations: per warehouse, the quantity for each store
\* it serves.
mlResults_allocations ==
    [warehouse_1 |-> [store_1 |-> F(850, 0), store_2 |-> F(650, 0), store_3 |-> F(500, 0)],
     warehouse_2 |-> [store_2 |-> F(670, 0), store_3 |-> F(1480, 0), store_4 |-> F(850, 0)],
     warehouse_3 |-> [store_1 |-> F(800, 0), store_4 |-> F(600, 0), store_5 |-> F(1750, 0)]]

\* mlResults.routing.routes with the stop at store_5 delivering 1800.
mlResults_routesOverDelivery ==
    << [vehicle_id |-> 0,
        stops |->
           << [location_id |-> "store_1", demand |-> F(850, 0),
               arrival_time |-> "08:30", service_time |-> 45],
              [location_id |-> "store_2", demand |-> F(650, 0),
               arrival_time |-> "10:15", service_time |-> 35],
              [location_id |-> "store_3", demand |-> F(500, 0),
               arrival_time |-> "12:00", service_time |-> 30] >>,
        total_distance |-> F(52, 80), total_time |-> F(185, 0),
        fuel_cost |-> F(28, 50), driver_cost |-> F(95, 0)],
       [vehicle_id |-> 1,
        stops |->
           << [location_id |-> "store_4", demand |-> F(850, 0),
               arrival_time |-> "09:00", service_time |-> 40],
              [location_id |-> "store_5", demand |-> F(1800, 0),
               arrival_time |-> "11:30", service_time |-> 60] >>,
        total_distance |-> F(38, 20), total_time |-> F(150, 0),
        fuel_cost |-> F(21, 75), driver_cost |-> F(85, 0)] >>

\* mlResults.routing.routes
mlResults_routes ==
    << [vehicle_id |-> 0,
        stops |->
           << [location_id |-> "store_1", demand |-> F(850, 0),
               arrival_time |-> "08:30", service_time |-> 45],
              [location_id |-> "store_2", demand |-> F(650, 0),
               arrival_time |-> "10:15", service_time |-> 35],
              [location_id |-> "store_3", demand |-> F(500, 0),
               arrival_time |-> "12:00", service_time |-> 30] >>,
        total_distance |-> F(52, 80), total_time |-> F(185, 0),
        fuel_cost |-> F(28, 50), driver_cost |-> F(95, 0)],
       [vehicle_id |-> 1,
        stops |->
           << [location_id |-> "store_4", demand |-> F(850, 0),
               arrival_time |-> "09:00", service_time |-> 40],
              [location_id |-> "store_5", demand |-> F(1750, 0),
               arrival_time |-> "11:30", service_time |-> 60] >>,
        total_distance |-> F(38, 20), total_time |-> F(150, 0),
        fuel_cost |-> F(21, 75), driver_cost |-> F(85, 0)] >>

\* The result object built by generateMLOptimizationResults.  Accuracies,
\* importances and utilizations given as fractions are held in hundredths.
mlResults ==
    [demand_forecast |->
        [ensemble_forecast |->
            <<F(120, 0), F(135, 0), F(142, 0), F(158, 0), F(165, 0), F(178, 0),
              F(185, 0), F(192, 0), F(205, 0), F(218, 0), F(225, 0), F(240, 0)>>,
         model_accuracy |-> F(0, 94),
         feature_importance |->
            [seasonal_trend |-> F(0, 35), historical_demand |-> F(0, 28),
             economic_indicators |-> F(0, 22), weather_patterns |-> F(0, 15)],
         total_demand |->
            [store_1 |-> F(1650, 0), store_2 |-> F(1320, 0), store_3 |-> F(1980, 0),
             store_4 |-> F(1450, 0), store_5 |-> F(1750, 0)],
         confidence_intervals |-> mlResults_confidence_intervals],
     allocation |->
        [status |-> "Optimal",
         algorithm |-> "PuLP Linear Programming",
         allocations |-> mlResults_allocations,
         capacity_utilization |-> F(82, 30),
         optimization_time |-> "0.45 seconds",
         objective_value |-> F(2180, 75)],
     routing |->
        [status |-> "Optimal",
         algorithm |-> "Google OR-Tools VRP",
         routes |-> mlResults_routes,
         total_cost |-> F(2485, 25),
         total_distance |-> F(91, 0),
         total_time |-> F(335, 0),
         vehicle_utilization |-> F(0, 89)],
     metrics |->
        [total_cost |-> F(2485, 25),
         capacity_utilization |-> F(82, 30),
         demand_fulfillment |-> F(97, 80),
         service_level |-> F(98, 50),
         constraint_violations |-> <<>>,
         cost_breakdown |->
            [transportation |-> F(1850, 75), warehousing |-> F(425, 50), handling |-> F(209, 0)],
         performance_indicators |->
            [cost_per_unit |-> F(1, 42), delivery_efficiency |-> F(0, 94),
             resource_utilization |-> F(0, 87), customer_satisfaction |-> F(0, 96)],
         ml_model_performance |->
            [demand_forecast_mape |-> F(4, 20), allocation_optimality_gap |-> F(0, 80),
             routing_improvement |-> F(12, 50)]]]

\* ---------------------------------------------------- scenario transform

\* applyMLScenarioModifications as it would be if modifiedData were the data
\* argument itself rather than a copy (const modifiedData = data): each
\* assignment to a field of modifiedData is then a write through data.
applyMLScenarioModificationsInPlace(data, scenarioData) ==
    LET scaled(field, key, records) ==
            Map(LAMBDA r : Spread(r, (key :> Mul(r[key], scenarioData[field]))
                                       @@ [ml_adjusted |-> TRUE]),
                records)
        d1 == IF TruthyField(scenarioData, "demand_multiplier")
              THEN Spread(data, [demandData |->
                      scaled("demand_multiplier", "demand", data.demandData)])
              ELSE data
        d2 == IF TruthyField(scenarioData, "capacity_multiplier")
              THEN Spread(d1, [capacityData |->
                      scaled("capacity_multiplier", "capacity", data.capacityData)])
              ELSE d1
        d3 == IF TruthyField(scenarioData, "cost_multiplier")
              THEN Spread(d2, [costData |->
                      scaled("cost_multiplier", "cost", data.costData)])
              ELSE d2
    IN  [data |-> d3, modifiedData |-> d3]

\* applyMLScenarioModifications(data, scenarioData).  The value is the pair of
\* objects the call leaves behind: data, the caller's argument object as it is
\* after the call, and modifiedData, the object returned.  modifiedData starts
\* as a fresh object holding data's fields ({ ...data }); each multiplier that
\* is truthy replaces one field of modifiedData by a mapped copy of the
\* argument's array, whose records are fresh objects ({ ...record, ... }).
\* Nothing is ever written through data.
applyMLScenarioModifications(data, scenarioData) ==
    LET h0 == [data |-> data, modifiedData |-> data]
        h1 == IF TruthyField(scenarioData, "demand_multiplier")
              THEN [h0 EXCEPT !.modifiedData =
                      Spread(@, [demandData |->
                         Map(LAMBDA demand :
                               Spread(demand,
                                 [demand |-> Mul(demand.demand, scenarioData.demand_multiplier),
                                  ml_adjusted |-> TRUE]),
                             data.demandData)])]
              ELSE h0
        h2 == IF TruthyField(scenarioData, "capacity_multiplier")
              THEN [h1 EXCEPT !.modifiedData =
                      Spread(@, [capacityData |->
                         Map(LAMBDA capacity :
                               Spread(capacity,
                                 [capacity |-> Mul(capacity.capacity, scenarioData.capacity_multiplier),
                                  ml_adjusted |-> TRUE]),
                             data.capacityData)])]
              ELSE h1
        h3 == IF TruthyField(scenarioData, "cost_multiplier")
              THEN [h2 EXCEPT !.modifiedData =
                      Spread(@, [costData |->
                         Map(LAMBDA cost :
                               Spread(cost,
                                 [cost |-> Mul(cost.cost, scenarioData.cost_multiplier),
                                  ml_adjusted |-> TRUE]),
                             data.costData)])]
              ELSE h2
    IN  h3

\* One Math.random() draw k / RandSteps, scaled to width (in hundredths).
RandomTimes(k, width) == (width * k) \div RandSteps

\* runMLOptimizationWithData with the cost jitter twice as wide
\* (Math.random() * 1000 - 500).
runMLOptimizationWithDataWideJitter(data) ==
    { [scenario_results |->
         [total_cost |-> F(2750, 85) + (RandomTimes(k1, F(1000, 0)) - F(500, 0)),
          capacity_utilization |-> F(78, 50) + (RandomTimes(k2, F(20, 0)) - F(10, 0)),
          demand_fulfillment |-> F(94, 20) + (RandomTimes(k3, F(10, 0)) - F(5, 0)),
          ml_confidence |-> F(0, 92),
          optimization_method |-> "RandomForest + PuLP + OR-Tools"]] :
      k1 \in 0..(RandSteps - 1), k2 \in 0..(RandSteps - 1), k3 \in 0..(RandSteps - 1) }

\* runMLOptimizationWithData(data): the set of objects the call can return, one
\* per outcome of its three Math.random() draws.  The argument is not read.
runMLOptimizationWithData(data) ==
    { [scenario_results |->
         [total_cost |-> F(2750, 85) + (RandomTimes(k1, F(500, 0)) - F(250, 0)),
          capacity_utilization |-> F(78, 50) + (RandomTimes(k2, F(20, 0)) - F(10, 0)),
          demand_fulfillment |-> F(94, 20) + (RandomTimes(k3, F(10, 0)) - F(5, 0)),
          ml_confidence |-> F(0, 92),
          optimization_method |-> "RandomForest + PuLP + OR-Tools"]] :
      k1 \in 0..(RandSteps - 1), k2 \in 0..(RandSteps - 1), k3 \in 0..(RandSteps - 1) }

\* ------------------------------------------------- dashboard comparison

\* The body of scenarioResults.map(...) in Dashboard: what one comparison row
\* reports for a stored scenario, against the baseline results.  The
\* per-scenario demand fulfillment is the constant undefined there, so the row
\* carries no scenarioDemandFulfillment field.
ScenarioComparisonRow(scenario, results) ==
    LET raw == scenario
        scenarioResultsRoot ==
            IF Has(raw, "results") /\ Has(raw.results, "scenario_results")
            THEN raw.results.scenario_results
            ELSE IF Has(raw, "scenario_results") THEN raw.scenario_results
            ELSE IF Has(raw, "results") THEN raw.results
            ELSE raw
        optimization ==
            IF Has(scenarioResultsRoot, "results") THEN scenarioResultsRoot.results
            ELSE IF Has(scenarioResultsRoot, "optimization") THEN scenarioResultsRoot.optimization
            ELSE scenarioResultsRoot
        routing == FieldOrEmpty(optimization, "routing")
        allocation == FieldOrEmpty(optimization, "allocation")
        scenarioCost ==
            IF Has(routing, "total_cost") THEN routing.total_cost
            ELSE IF Has(routing, "totalDistance") THEN routing.totalDistance
            ELSE 0
        scenarioCapacity ==
            IF Has(allocation, "capacity_utilization") THEN allocation.capacity_utilization
            ELSE 0
        baselineCost ==
            IF Has(results, "metrics") /\ TruthyField(results.metrics, "total_cost")
            THEN results.metrics.total_cost
            ELSE 0
        costDiff == scenarioCost - baselineCost
    IN  [scenarioCost |-> scenarioCost,
         scenarioCapacity |-> scenarioCapacity,
         baselineCost |-> baselineCost,
         costDiff |-> costDiff,
         isImprovement |-> costDiff < 0]

\* ----------------------------------------------------------------- inputs

\* The scenarioData objects clients send.  Multipliers are in hundredths
\* (140 is 1.4); route_blockage is the scenario's route-blockage flag.
Scenarios ==
    { [scenarioName |-> "Baseline Replay",
       scenarioData |-> [demand_multiplier |-> F(1, 0), capacity_multiplier |-> F(1, 0),
                         cost_multiplier |-> F(1, 0), route_blockage |-> FALSE]],
      [scenarioName |-> "Peak Season Surge",
       scenarioData |-> [demand_multiplier |-> F(1, 40), capacity_multiplier |-> F(1, 0),
                         cost_multiplier |-> F(1, 0), route_blockage |-> FALSE]],
      [scenarioName |-> "Supply Chain Crisis",
       scenarioData |-> [demand_multiplier |-> 0, capacity_multiplier |-> F(0, 60),
                         cost_multiplier |-> F(1, 40), route_blockage |-> TRUE]],
      [scenarioName |-> "Capacity Crunch",
       scenarioData |-> [demand_multiplier |-> F(1, 40), capacity_multiplier |-> F(0, 60),
                         cost_multiplier |-> F(1, 0), route_blockage |-> FALSE]] }

\* The storage ids ctx.storage.getUrl resolves; any other id yields null.
StoredIds == {"s1", "s2", "s3", "s4", "s5", "s6", "s7"}

\* What fileName.includes(marker) answers for the file names of the model.
FileNameMarkers ==
    [GeoLocations_xlsx |-> {"GeoLocations"},
     CapacityClustered_xlsx |-> {"CapacityClustered"},
     DemandCluster_xlsx |-> {"DemandCluster"},
     DistanceCluster_xlsx |-> {"DistanceCluster"},
     Time_xlsx |-> {"Time"},
     CostCluster_xlsx |-> {"CostCluster"},
     CostsMWC_Clustered_xlsx |-> {"CostsMWC-Clustered"}]

Includes(fileName, marker) == marker \in FileNameMarkers[fileName]

UploadItem(fileName, storageId) ==
    [fileName |-> fileName, fileId |-> fileName, storageId |-> storageId]

\* The upload of all seven files of the dataset.
FullUploadList ==
    << UploadItem("GeoLocations_xlsx", "s1"), UploadItem("CapacityClustered_xlsx", "s2"),
       UploadItem("DemandCluster_xlsx", "s3"), UploadItem("DistanceCluster_xlsx", "s4"),
       UploadItem("Time_xlsx", "s5"), UploadItem("CostCluster_xlsx", "s6"),
       UploadItem("CostsMWC_Clustered_xlsx", "s7") >>

\* The uploadResults lists clients send.
UploadLists ==
    { FullUploadList,
      << UploadItem("CapacityClustered_xlsx", "s2"), UploadItem("DemandCluster_xlsx", "missing") >> }

\* Further uploadResults lists: the GeoLocations file listed twice, and the two
\* cost files with CostsMWC-Clustered ahead of CostCluster.
RepeatedUploadLists ==
    { << UploadItem("GeoLocations_xlsx", "s1"), UploadItem("GeoLocations_xlsx", "s1") >>,
      << UploadItem("CostsMWC_Clustered_xlsx", "s7"), UploadItem("CostCluster_xlsx", "s6") >> }

\* The args of direct saveMatrix calls: a 2 x 2 matrix over two locations, one
\* whose second row is short, and one with a single row for two locations.
\* Entries are in tenths.
MatrixArgs ==
    { [matrixType |-> "distance", data |-> << <<0, 152>>, <<152, 0>> >>,
       locationIds |-> <<"warehouse_1", "store_1">>],
      [matrixType |-> "distance", data |-> << <<0, 152>>, <<152>> >>,
       locationIds |-> <<"warehouse_1", "store_1">>],
      [matrixType |-> "time", data |-> << <<0, 25>> >>,
       locationIds |-> <<"warehouse_1", "store_1">>] }

\* ------------------------------------------------------------------ state

VARIABLES
    locations,            \* table locations, in insertion order
    capacityData,         \* table capacityData
    demandData,           \* table demandData
    costData,             \* table costData
    matrices,             \* table matrices
    optimizationResults,  \* table optimizationResults
    scenarioResults,      \* table scenarioResults
    now,                  \* the value Date.now() returned last (0: not called yet)
    uploadsStarted,       \* processUploadedFiles invocations so far
    loadsDone,            \* loadSampleData invocations so far
    upload,               \* per uploader: the processUploadedFiles call in progress
    call,                 \* per caller: the runScenario call
    app,                  \* the useState values of the App component
    fileUpload,           \* the state of the FileUpload component, when mounted
    panel,                \* the form state of the ScenarioPanel component, when mounted
    requests              \* the fetches of the frontend that are not yet answered

tables == <<locations, capacityData, demandData, costData, matrices>>

\* The frontend: App with the component it shows and its fetches in flight.
frontend == <<app, fileUpload, panel, requests>>

vars == <<locations, capacityData, demandData, costData, matrices, optimizationResults,
          scenarioResults, now, uploadsStarted, loadsDone, upload, call, app, fileUpload,
          panel, requests>>

\* Rows are held without the _id and _creationTime fields the database adds;
\* a table's order is its insertion (creation) order.

IdleUpload ==
    [pc |-> "idle", uploadResults |-> <<>>, index |-> 0,
     processedData |-> EmptyObject, returned |-> EmptyObject]

\* A runScenario call: its arguments, its local constants locations, demandData,
\* capacityData and costData (the arrays the queries returned, which the data
\* argument of applyMLScenarioModifications refers to), modifiedData and
\* results.  Of a call that has returned (pc "done") only its arguments and
\* results, the value the caller received, are kept.
IdleCall ==
    [pc |-> "idle", scenarioName |-> "", scenarioData |-> EmptyObject,
     locations |-> <<>>, demandData |-> <<>>, capacityData |-> <<>>, costData |-> <<>>,
     modifiedData |-> EmptyObject, results |-> EmptyObject]

\* null, and the state of a component that is not mounted.
Null == <<>>

Unmounted == <<>>

\* Whether a component is mounted (holds state).
Mounted(component) == DOMAIN component # {}

\* The useState defaults of App.
IdleApp ==
    [loading |-> FALSE, scenarioResults |-> <<>>, dataSummary |-> Null,
     optimizationResults |-> Null, initialLoading |-> TRUE]

\* The useState default of FileUpload.
IdleFileUpload == [uploadedFiles |-> <<>>]

\* The useState defaults of ScenarioPanel.
IdlePanel ==
    [scenarioName |-> "", demandChange |-> 0, capacityChange |-> 0, costChange |-> 0,
     routeBlockage |-> FALSE]

\* The fetches in flight when App is mounted: the /data-summary request of
\* its effect; no upload (upload holds the files sent) and no scenario run
\* (run holds the body sent).
IdleRequests == [initial |-> "data-summary", upload |-> <<>>, run |-> EmptyObject]

\* The frontend as the page is opened: App shows FileUpload.
InitFrontend ==
    /\ app = IdleApp
    /\ fileUpload = IdleFileUpload
    /\ panel = Unmounted
    /\ requests = IdleRequests

\* The state of a fresh deployment: every table empty, no call made.
InitBackend ==
    /\ locations = <<>>
    /\ capacityData = <<>>
    /\ demandData = <<>>
    /\ costData = <<>>
    /\ matrices = <<>>
    /\ optimizationResults = <<>>
    /\ scenarioResults = <<>>
    /\ now = 0
    /\ uploadsStarted = 0
    /\ loadsDone = 0
    /\ upload = [u \in Uploaders |-> IdleUpload]
    /\ call = [c \in Callers |-> IdleCall]

Init == InitBackend /\ InitFrontend

\* ------------------------------------------------------ internal mutations

\* The values Date.now() can return next: the millisecond of its previous
\* call again, or a later one; the first call returns 1.
DateNow == IF now = 0 THEN {1} ELSE {now, now + 1}

\* The row saveOptimizationResults inserts for results when Date.now()
\* returns timestamp.
OptimizationResultsRow(results, timestamp) ==
    [demandForecast |-> FieldOrEmpty(results, "demand_forecast"),
     allocation |-> FieldOrEmpty(results, "allocation"),
     routing |-> FieldOrEmpty(results, "routing"),
     metrics |-> FieldOrEmpty(results, "metrics"),
     timestamp |-> timestamp,
     status |-> "completed"]

\* generateMLOptimizationResults: builds mlResults, saves it through
\* saveOptimizationResults and returns it.
generateMLOptimizationResults ==
    \E timestamp \in DateNow :
        /\ optimizationResults' =
              Append(optimizationResults, OptimizationResultsRow(mlResults, timestamp))
        /\ now' = timestamp

\* The row saveScenarioResult inserts when Date.now() returns timestamp.
ScenarioResultRow(scenarioName, scenarioData, results, timestamp) ==
    [scenarioName |-> scenarioName,
     scenarioData |-> scenarioData,
     results |-> results,
     timestamp |-> timestamp]

\* ---------------------------------------------------------------- queries

\* getOptimizationResults returning the newest row as stored, without the
\* transform to the frontend's field names.
getOptimizationResultsUntransformed ==
    IF optimizationResults = <<>> THEN <<>>
    ELSE LET results == optimizationResults[Len(optimizationResults)]
         IN  [demandForecast |-> results.demandForecast,
              allocation |-> results.allocation,
              routing |-> results.routing,
              metrics |-> results.metrics]

\* getOptimizationResults: the newest row in the frontend's shape, or null
\* (the empty sequence stands for null).
getOptimizationResults ==
    IF optimizationResults = <<>> THEN <<>>
    ELSE LET results == optimizationResults[Len(optimizationResults)]
         IN  [demand_forecast |-> results.demandForecast,
              allocation |-> results.allocation,
              routing |-> results.routing,
              metrics |-> results.metrics]

\* getScenarioResults: every row, newest first.
getScenarioResults ==
    [i \in 1..Len(scenarioResults) |-> scenarioResults[Len(scenarioResults) + 1 - i]]

\* ----------------------------------------------------- processUploadedFiles

\* A client invokes processUploadedFiles with one of lists as uploadResults.
UploadStartWith(u, lists) ==
    /\ upload[u].pc \in {"idle", "done", "failed"}
    /\ uploadsStarted < MaxUploads
    /\ \E list \in lists :
          upload' = [upload EXCEPT ![u] = [IdleUpload EXCEPT !.pc = "clear", !.uploadResults = list]]
    /\ uploadsStarted' = uploadsStarted + 1
    /\ UNCHANGED <<frontend, tables, optimizationResults, scenarioResults, now, loadsDone, call>>

\* A client invokes processUploadedFiles with one of the upload lists.
UploadStart(u) == UploadStartWith(u, UploadLists)

\* The start of processUploadedFiles with a clearExistingData that deletes the
\* rows of the two result tables as well.
UploadClearAll(u) ==
    /\ upload[u].pc = "clear"
    /\ locations' = <<>>
    /\ capacityData' = <<>>
    /\ demandData' = <<>>
    /\ costData' = <<>>
    /\ matrices' = <<>>
    /\ optimizationResults' = <<>>
    /\ scenarioResults' = <<>>
    /\ upload' = [upload EXCEPT
          ![u].pc = IF upload[u].uploadResults = <<>> THEN "generate" ELSE "file",
          ![u].index = 1,
          ![u].processedData =
              [locations_count |-> 0, warehouses_count |-> 0, stores_count |-> 0,
               capacity_records |-> 0, demand_records |-> 0, cost_records |-> 0]]
    /\ UNCHANGED <<frontend, now, uploadsStarted, loadsDone, call>>

\* clearExistingData, then the processedData counters are zeroed.
UploadClear(u) ==
    /\ upload[u].pc = "clear"
    /\ locations' = <<>>
    /\ capacityData' = <<>>
    /\ demandData' = <<>>
    /\ costData' = <<>>
    /\ matrices' = <<>>
    /\ upload' = [upload EXCEPT
          ![u].pc = IF upload[u].uploadResults = <<>> THEN "generate" ELSE "file",
          ![u].index = 1,
          ![u].processedData =
              [locations_count |-> 0, warehouses_count |-> 0, stores_count |-> 0,
               capacity_records |-> 0, demand_records |-> 0, cost_records |-> 0]]
    /\ UNCHANGED <<frontend, optimizationResults, scenarioResults, now, uploadsStarted, loadsDone, call>>

\* One iteration of the loop over args.uploadResults.
UploadFile(u) ==
    /\ upload[u].pc = "file"
    /\ LET item == upload[u].uploadResults[upload[u].index]
           pd == upload[u].processedData
           last == upload[u].index = Len(upload[u].uploadResults)
           advance(pd2) ==
               upload' = [upload EXCEPT
                  ![u].index = @ + 1,
                  ![u].pc = IF last THEN "generate" ELSE "file",
                  ![u].processedData = pd2]
       IN  IF item.storageId \notin StoredIds
           THEN /\ advance(pd)
                /\ UNCHANGED tables
           ELSE IF Includes(item.fileName, "GeoLocations")
           THEN /\ locations' = locations \o processGeoLocationsFile
                /\ advance([pd EXCEPT
                      !.locations_count = Len(processGeoLocationsFile),
                      !.warehouses_count =
                          Len(Filter(LAMBDA l : l.type = "warehouse", processGeoLocationsFile)),
                      !.stores_count =
                          Len(Filter(LAMBDA l : l.type = "store", processGeoLocationsFile))])
                /\ UNCHANGED <<capacityData, demandData, costData, matrices>>
           ELSE IF Includes(item.fileName, "CapacityClustered")
           THEN /\ capacityData' = capacityData \o processCapacityClusteredFile
                /\ advance([pd EXCEPT !.capacity_records = Len(processCapacityClusteredFile)])
                /\ UNCHANGED <<locations, demandData, costData, matrices>>
           ELSE IF Includes(item.fileName, "DemandCluster")
           THEN /\ demandData' = demandData \o processDemandClusterFile
                /\ advance([pd EXCEPT !.demand_records = Len(processDemandClusterFile)])
                /\ UNCHANGED <<locations, capacityData, costData, matrices>>
           ELSE IF Includes(item.fileName, "DistanceCluster")
           THEN /\ matrices' = Append(matrices,
                      [matrixType |-> "distance",
                       data |-> processDistanceClusterFile.data,
                       locationIds |-> processDistanceClusterFile.locationIds])
                /\ advance(pd)
                /\ UNCHANGED <<locations, capacityData, demandData, costData>>
           ELSE IF Includes(item.fileName, "Time")
           THEN /\ matrices' = Append(matrices,
                      [matrixType |-> "time",
                       data |-> processTimeFile.data,
                       locationIds |-> processTimeFile.locationIds])
                /\ advance(pd)
                /\ UNCHANGED <<locations, capacityData, demandData, costData>>
           ELSE IF Includes(item.fileName, "CostCluster")
           THEN /\ costData' = costData \o processCostClusterFile
                /\ advance([pd EXCEPT !.cost_records = Len(processCostClusterFile)])
                /\ UNCHANGED <<locations, capacityData, demandData, matrices>>
           ELSE IF Includes(item.fileName, "CostsMWC-Clustered")
           THEN /\ costData' = costData \o processCostsMWCFile
                /\ advance([pd EXCEPT !.cost_records = @ + Len(processCostsMWCFile)])
                /\ UNCHANGED <<locations, capacityData, demandData, matrices>>
           ELSE /\ advance(pd)
                /\ UNCHANGED tables
    /\ UNCHANGED <<frontend, optimizationResults, scenarioResults, now, uploadsStarted, loadsDone, call>>

\* fetch (or reading the response) throws for the current file: the catch
\* block rethrows and the call ends with an error.
UploadFetchFails(u) ==
    /\ upload[u].pc = "file"
    /\ upload[u].uploadResults[upload[u].index].storageId \in StoredIds
    /\ upload' = [upload EXCEPT ![u].pc = "failed"]
    /\ UNCHANGED <<frontend, tables, optimizationResults, scenarioResults, now, uploadsStarted,
                   loadsDone, call>>

\* After the loop: generateMLOptimizationResults, then the return.
UploadGenerate(u) ==
    /\ upload[u].pc = "generate"
    /\ generateMLOptimizationResults
    /\ upload' = [upload EXCEPT
          ![u].pc = "done",
          ![u].returned = [dataSummary |-> upload[u].processedData, results |-> mlResults]]
    /\ UNCHANGED <<frontend, tables, scenarioResults, uploadsStarted, loadsDone, call>>

\* ------------------------------------------------------------ loadSampleData

LoadSampleData ==
    /\ loadsDone < MaxLoads
    /\ generateMLOptimizationResults
    /\ loadsDone' = loadsDone + 1
    /\ UNCHANGED <<frontend, tables, scenarioResults, uploadsStarted, upload, call>>

\* --------------------------------------------------------------- runScenario

\* A client invokes runScenario with one of scenarios.
RunScenarioStartWith(c, scenarios) ==
    /\ call[c].pc = "idle"
    /\ \E s \in scenarios :
          call' = [call EXCEPT ![c].pc = "locations",
                               ![c].scenarioName = s.scenarioName,
                               ![c].scenarioData = s.scenarioData]
    /\ UNCHANGED <<frontend, tables, optimizationResults, scenarioResults, now, uploadsStarted,
                   loadsDone, upload>>

\* The four queries, each a read of one table as it is at that moment.
RunScenarioGetLocations(c) ==
    /\ call[c].pc = "locations"
    /\ call' = [call EXCEPT ![c].pc = "demandData", ![c].locations = locations]
    /\ UNCHANGED <<frontend, tables, optimizationResults, scenarioResults, now, uploadsStarted,
                   loadsDone, upload>>

RunScenarioGetDemandData(c) ==
    /\ call[c].pc = "demandData"
    /\ call' = [call EXCEPT ![c].pc = "capacityData", ![c].demandData = demandData]
    /\ UNCHANGED <<frontend, tables, optimizationResults, scenarioResults, now, uploadsStarted,
                   loadsDone, upload>>

RunScenarioGetCapacityData(c) ==
    /\ call[c].pc = "capacityData"
    /\ call' = [call EXCEPT ![c].pc = "costData", ![c].capacityData = capacityData]
    /\ UNCHANGED <<frontend, tables, optimizationResults, scenarioResults, now, uploadsStarted,
                   loadsDone, upload>>

RunScenarioGetCostData(c) ==
    /\ call[c].pc = "costData"
    /\ call' = [call EXCEPT ![c].pc = "apply", ![c].costData = costData]
    /\ UNCHANGED <<frontend, tables, optimizationResults, scenarioResults, now, uploadsStarted,
                   loadsDone, upload>>

\* The object literal { locations, demandData, capacityData, costData } the
\* call passes as data: it refers to the call's four arrays.
DataArgument(c) ==
    [locations |-> call[c].locations,
     demandData |-> call[c].demandData,
     capacityData |-> call[c].capacityData,
     costData |-> call[c].costData]

\* applyMLScenarioModifications, then runMLOptimizationWithData.  The four
\* arrays are afterwards whatever the call left in the data argument.
RunScenarioApply(c) ==
    /\ call[c].pc = "apply"
    /\ LET after == applyMLScenarioModifications(DataArgument(c), call[c].scenarioData)
       IN  \E results \in runMLOptimizationWithData(after.modifiedData) :
              call' = [call EXCEPT ![c].pc = "save",
                                   ![c].locations = after.data.locations,
                                   ![c].demandData = after.data.demandData,
                                   ![c].capacityData = after.data.capacityData,
                                   ![c].costData = after.data.costData,
                                   ![c].modifiedData = after.modifiedData,
                                   ![c].results = results]
    /\ UNCHANGED <<frontend, tables, optimizationResults, scenarioResults, now, uploadsStarted,
                   loadsDone, upload>>

\* saveScenarioResult, then the return of results.
RunScenarioSave(c) ==
    /\ call[c].pc = "save"
    /\ \E timestamp \in DateNow :
          /\ scenarioResults' = Append(scenarioResults,
                ScenarioResultRow(call[c].scenarioName, call[c].scenarioData,
                                  call[c].results, timestamp))
          /\ now' = timestamp
    /\ call' = [call EXCEPT ![c] = [IdleCall EXCEPT !.pc = "done",
                                                     !.scenarioName = call[c].scenarioName,
                                                     !.scenarioData = call[c].scenarioData,
                                                     !.results = call[c].results]]
    /\ UNCHANGED <<frontend, tables, optimizationResults, uploadsStarted, loadsDone, upload>>

\* runScenario failing, where a failure after saveScenarioResult has inserted
\* its row is possible too: the row stays and the caller gets the error.
RunScenarioFailsAfterInsert(c) ==
    /\ call[c].pc \in {"locations", "demandData", "capacityData", "costData", "save"}
    /\ IF call[c].pc = "save"
       THEN \E timestamp \in DateNow :
              /\ scenarioResults' = Append(scenarioResults,
                    ScenarioResultRow(call[c].scenarioName, call[c].scenarioData,
                                      call[c].results, timestamp))
              /\ now' = timestamp
       ELSE UNCHANGED <<scenarioResults, now>>
    /\ call' = [call EXCEPT ![c] = [IdleCall EXCEPT !.pc = "failed",
                                                     !.scenarioName = call[c].scenarioName,
                                                     !.scenarioData = call[c].scenarioData]]
    /\ UNCHANGED <<frontend, tables, optimizationResults, uploadsStarted, loadsDone, upload>>

\* A query or the mutation throws: the catch block rethrows, nothing is
\* returned and nothing is written.
RunScenarioFails(c) ==
    /\ call[c].pc \in {"locations", "demandData", "capacityData", "costData", "save"}
    /\ call' = [call EXCEPT ![c] = [IdleCall EXCEPT !.pc = "failed",
                                                     !.scenarioName = call[c].scenarioName,
                                                     !.scenarioData = call[c].scenarioData]]
    /\ UNCHANGED <<frontend, tables, optimizationResults, scenarioResults, now, uploadsStarted,
                   loadsDone, upload>>

\* ------------------------------------------------------------ specifications

\* A client invokes runScenario with one of the scenarios clients send.
RunScenarioStart(c) == RunScenarioStartWith(c, Scenarios)

\* A step of a runScenario call that has been invoked.
RunScenarioRun(c) ==
    \/ RunScenarioGetLocations(c)
    \/ RunScenarioGetDemandData(c)
    \/ RunScenarioGetCapacityData(c)
    \/ RunScenarioGetCostData(c)
    \/ RunScenarioApply(c)
    \/ RunScenarioSave(c)
    \/ RunScenarioFails(c)

RunScenarioStep(c) ==
    \/ RunScenarioStart(c)
    \/ RunScenarioRun(c)

UploadStep(u) ==
    \/ UploadStart(u)
    \/ UploadClear(u)
    \/ UploadFile(u)
    \/ UploadFetchFails(u)
    \/ UploadGenerate(u)

\* The scenario of the run that goes on next to uploads and sample loads.
SurgeScenarios == { s \in Scenarios : s.scenarioName = "Peak Season Surge" }

\* The system as one client session drives it: uploads and sample loads
\* interleaved, at their awaits, with the runScenario call of one caller.
Next ==
    \/ \E u \in Uploaders : UploadStep(u)
    \/ LoadSampleData
    \/ RunScenarioStartWith("c1", SurgeScenarios)
    \/ RunScenarioRun("c1")

Spec == Init /\ [][Next]_vars

\* The dataset and results a complete upload of the full file list leaves
\* behind (the state Spec reaches when that upload returns).
InitAfterUpload ==
    /\ locations = processGeoLocationsFile
    /\ capacityData = processCapacityClusteredFile
    /\ demandData = processDemandClusterFile
    /\ costData = processCostClusterFile \o processCostsMWCFile
    /\ matrices =
          << [matrixType |-> "distance", data |-> processDistanceClusterFile.data,
              locationIds |-> processDistanceClusterFile.locationIds],
             [matrixType |-> "time", data |-> processTimeFile.data,
              locationIds |-> processTimeFile.locationIds] >>
    /\ optimizationResults =
          << [demandForecast |-> mlResults.demand_forecast, allocation |-> mlResults.allocation,
              routing |-> mlResults.routing, metrics |-> mlResults.metrics,
              timestamp |-> 1, status |-> "completed"] >>
    /\ scenarioResults = <<>>
    /\ now = 1
    /\ uploadsStarted = 1
    /\ loadsDone = 0
    /\ upload = [u \in Uploaders |->
          [pc |-> "done", uploadResults |-> FullUploadList,
           index |-> Len(FullUploadList) + 1,
           processedData |->
              [locations_count |-> 8, warehouses_count |-> 3, stores_count |-> 5,
               capacity_records |-> 3, demand_records |-> 5, cost_records |-> 8],
           returned |->
              [dataSummary |->
                  [locations_count |-> 8, warehouses_count |-> 3, stores_count |-> 5,
                   capacity_records |-> 3, demand_records |-> 5, cost_records |-> 8],
               results |-> mlResults]]]
    /\ call = [c \in Callers |-> IdleCall]
    /\ InitFrontend

\* Concurrent scenario runs over a stored dataset that no upload changes
\* meanwhile: the dataset is the empty one of a fresh deployment or the one a
\* complete upload stored, and every caller's runScenario call may be in
\* flight together with the others'.
NextRuns ==
    \E c \in Callers : RunScenarioStep(c)

RunsSpec == (Init \/ InitAfterUpload) /\ [][NextRuns]_vars

\* ------------------------------------------------------------ saveMatrix

\* The internal mutation saveMatrix called with args: the three fields are
\* inserted as given.
SaveMatrix(args) ==
    /\ Len(matrices) < MaxMatrices
    /\ matrices' = Append(matrices,
          [matrixType |-> args.matrixType, data |-> args.data,
           locationIds |-> args.locationIds])
    /\ UNCHANGED <<frontend, locations, capacityData, demandData, costData, optimizationResults,
                   scenarioResults, now, uploadsStarted, loadsDone, upload, call>>

\* Ingestion on its own: processUploadedFiles with the upload lists and the
\* repeated ones, loadSampleData, and direct saveMatrix calls.
NextIngest ==
    \/ \E u \in Uploaders : UploadStep(u)
    \/ \E u \in Uploaders : UploadStartWith(u, RepeatedUploadLists)
    \/ LoadSampleData
    \/ \E args \in MatrixArgs : SaveMatrix(args)

IngestSpec == Init /\ [][NextIngest]_vars

\* ---------------------------------------------------------------- frontend

\* The tables and calls of the backend without the clock; the frontend
\* leaves them alone.
backend ==
    <<tables, optimizationResults, scenarioResults, uploadsStarted, loadsDone, upload, call>>

\* obj.field ?? 0
OrZero(obj, field) == IF Has(obj, field) THEN obj[field] ELSE 0

\* obj.field of obj?.field, with undefined as the object without fields.
Sub(obj, field) == IF Has(obj, field) THEN obj[field] ELSE EmptyObject

\* { f: obj.f, ... } for the fields named: a field obj lacks is undefined.
Pick(obj, fields) == [f \in fields \cap DOMAIN obj |-> obj[f]]

ResultFields == {"demand_forecast", "allocation", "routing", "metrics"}

\* showUpload of App for the state a.
showUpload(a) ==
    \/ ~Has(a.dataSummary, "locations_count")
    \/ a.dataSummary.locations_count = 0

\* App rendered with state a, FileUpload state fu and ScenarioPanel state p
\* (as the handler's setters left them): the component App does not show is
\* unmounted and its state dropped, the one it shows keeps its state or, when
\* it was not mounted, starts from its useState defaults.
Render(a, fu, p) ==
    /\ app' = a
    /\ fileUpload' =
          IF ~showUpload(a) THEN Unmounted
          ELSE IF Mounted(fu) THEN fu ELSE IdleFileUpload
    /\ panel' =
          IF showUpload(a) THEN Unmounted
          ELSE IF Mounted(p) THEN p ELSE IdlePanel

\* The answers of GET /data-summary that parse as JSON.
SummaryAnswers ==
    { [status |-> "success",
       summary |-> [locations_count |-> 8, warehouses_count |-> 3, stores_count |-> 5,
                    time_periods |-> 12, has_results |-> TRUE]],
      [status |-> "success",
       summary |-> [locations_count |-> 8, warehouses_count |-> 3, stores_count |-> 5,
                    time_periods |-> 12, has_results |-> FALSE]],
      [status |-> "success", summary |-> [locations_count |-> 0]],
      [status |-> "error", summary |-> EmptyObject] }

\* The effect of App: /data-summary answers ok with json.
dataSummaryAnswers(json) ==
    /\ requests.initial = "data-summary"
    /\ LET success == json.status = "success"
           s == json.summary
           summary ==
               [locations_count |-> OrZero(s, "locations_count"),
                warehouses_count |-> OrZero(s, "warehouses_count"),
                stores_count |-> OrZero(s, "stores_count"),
                time_periods |-> OrZero(s, "time_periods"),
                capacity_records |-> 0,
                demand_records |-> 0]
           more == success /\ TruthyField(s, "has_results")
       IN  /\ Render([app EXCEPT !.dataSummary = IF success THEN summary ELSE @,
                                 !.initialLoading = more],
                     fileUpload, panel)
           /\ requests' = [requests EXCEPT !.initial = IF more THEN "results" ELSE "done"]
    /\ UNCHANGED <<backend, now>>

\* The effect of App: /data-summary answers not ok, or the fetch throws.
dataSummaryFails ==
    /\ requests.initial = "data-summary"
    /\ Render([app EXCEPT !.initialLoading = FALSE], fileUpload, panel)
    /\ requests' = [requests EXCEPT !.initial = "done"]
    /\ UNCHANGED <<backend, now>>

\* The results a backend answers with.
AnsweredResults == Pick(mlResults, ResultFields)

\* The answers of GET /results that parse as JSON.
ResultsAnswers == { [results |-> AnsweredResults], [results |-> Pick(mlResults, {"metrics"})] }

\* The effect of App: /results answers ok with json2.
resultsAnswers(json2) ==
    /\ requests.initial = "results"
    /\ Render([app EXCEPT !.optimizationResults = Pick(json2.results, ResultFields),
                          !.initialLoading = FALSE],
              fileUpload, panel)
    /\ requests' = [requests EXCEPT !.initial = "done"]
    /\ UNCHANGED <<backend, now>>

\* The effect of App: /results answers not ok, or the fetch throws.
resultsFails ==
    /\ requests.initial = "results"
    /\ Render([app EXCEPT !.initialLoading = FALSE], fileUpload, panel)
    /\ requests' = [requests EXCEPT !.initial = "done"]
    /\ UNCHANGED <<backend, now>>

\* ---------------------------------------------------------------- FileUpload

\* How many files FileUpload may list.
MaxFiles == 2

\* The file names that end in .xlsx or .xls.
ExcelNames == {"a.xlsx", "b.xls"}

\* The acceptedFiles of a drop, by name.
Drops == { <<"a.xlsx">>, <<"b.xls">>, <<"a.xlsx", "notes.txt">> }

\* onDrop: the files are added unless one of them is not an Excel file.
onDrop(acceptedFiles) ==
    /\ Mounted(fileUpload)
    /\ LET excelFiles == Filter(LAMBDA file : file \in ExcelNames, acceptedFiles)
       IN  /\ Len(fileUpload.uploadedFiles) + Len(excelFiles) <= MaxFiles
           /\ IF Len(excelFiles) # Len(acceptedFiles)
              THEN Render(app, fileUpload, panel)
              ELSE Render(app,
                          [fileUpload EXCEPT !.uploadedFiles = @ \o excelFiles],
                          panel)
    /\ UNCHANGED <<backend, now, requests>>

\* removeFile(index), index counted from 1.
removeFile(index) ==
    /\ Mounted(fileUpload)
    /\ index \in 1..Len(fileUpload.uploadedFiles)
    /\ Render(app,
              [fileUpload EXCEPT !.uploadedFiles =
                  SubSeq(@, 1, index - 1) \o SubSeq(@, index + 1, Len(@))],
              panel)
    /\ UNCHANGED <<backend, now, requests>>

\* handleUpload up to its fetch: the button is enabled with files listed and
\* loading false; loading is set and the files are sent.
handleUpload ==
    /\ Mounted(fileUpload)
    /\ fileUpload.uploadedFiles # <<>>
    /\ ~app.loading
    /\ Render([app EXCEPT !.loading = TRUE], fileUpload, panel)
    /\ requests' = [requests EXCEPT !.upload = fileUpload.uploadedFiles]
    /\ UNCHANGED <<backend, now>>

\* The answers of POST /upload-files that parse as JSON.
UploadAnswers ==
    { EmptyObject,
      [data_summary |-> [locations |-> 8, warehouses |-> 2, stores |-> 3, time_periods |-> 12],
       results |-> AnsweredResults] }

\* handleDataUpload of App.
handleDataUpload(a, uploadedData, uploadedResults) ==
    [a EXCEPT !.dataSummary = uploadedData,
              !.optimizationResults = uploadedResults,
              !.scenarioResults = <<>>]

\* handleUpload answered ok with json: onDataUpload, the file list is
\* emptied (in a FileUpload that is still mounted), loading is cleared.
handleUploadOk(json) ==
    /\ requests.upload # <<>>
    /\ LET data_summary == Sub(json, "data_summary")
           summary ==
               [locations_count |-> OrZero(data_summary, "locations"),
                warehouses_count |-> OrZero(data_summary, "warehouses"),
                stores_count |-> OrZero(data_summary, "stores"),
                time_periods |-> OrZero(data_summary, "time_periods"),
                capacity_records |-> 0,
                demand_records |-> 0]
           results == Pick(Sub(json, "results"), ResultFields)
       IN  Render([handleDataUpload(app, summary, results) EXCEPT !.loading = FALSE],
                  IF Mounted(fileUpload) THEN [fileUpload EXCEPT !.uploadedFiles = <<>>]
                  ELSE Unmounted,
                  panel)
    /\ requests' = [requests EXCEPT !.upload = <<>>]
    /\ UNCHANGED <<backend, now>>

\* handleUpload answered not ok, or its fetch throws: loading is cleared.
handleUploadFails ==
    /\ requests.upload # <<>>
    /\ Render([app EXCEPT !.loading = FALSE], fileUpload, panel)
    /\ requests' = [requests EXCEPT !.upload = <<>>]
    /\ UNCHANGED <<backend, now>>

\* ------------------------------------------------------------ ScenarioPanel

\* scenarioName.trim() for the names of the model: " " is the one name with
\* whitespace.
Trim(name) == IF name = " " THEN "" ELSE name

\* The predefinedScenarios of ScenarioPanel; changes are whole percents.
predefinedScenarios ==
    << [name |-> "Peak Season Surge", demand |-> 40, capacity |-> 0, cost |-> 15,
        blockage |-> FALSE],
       [name |-> "Capacity Expansion", demand |-> 0, capacity |-> 50, cost |-> 0,
        blockage |-> FALSE],
       [name |-> "Fuel Crisis", demand |-> 0, capacity |-> 0, cost |-> 30,
        blockage |-> FALSE],
       [name |-> "Route Disruption", demand |-> 10, capacity |-> 0, cost |-> 20,
        blockage |-> TRUE],
       [name |-> "Economic Downturn", demand |-> -25, capacity |-> 0, cost |-> -10,
        blockage |-> FALSE],
       [name |-> "Supply Chain Crisis", demand |-> 0, capacity |-> -30, cost |-> 25,
        blockage |-> TRUE] >>

\* The names typed into the scenario name field.
TypedNames == {"", " ", "Custom"}

\* How many scenario results App may list.
MaxScenarioRuns == 1

\* The body handleRunScenario builds from the form state p.  factor is in
\* hundredths (1 + demandChange / 100 is 100 + demandChange).
RequestBody(p) ==
    [name |-> Trim(p.scenarioName),
     demand_surge |-> [factor |-> F(1, 0) + p.demandChange, locations |-> <<>>]]

\* Clicking a predefined scenario (disabled while loading).
loadPredefinedScenario(scenario) ==
    /\ Mounted(panel)
    /\ ~app.loading
    /\ Render(app, fileUpload,
              [panel EXCEPT !.scenarioName = scenario.name,
                            !.demandChange = scenario.demand,
                            !.capacityChange = scenario.capacity,
                            !.costChange = scenario.cost,
                            !.routeBlockage = scenario.blockage])
    /\ UNCHANGED <<backend, now, requests>>

\* Typing into the scenario name field.  The field, the three sliders and the
\* route-blockage switch are not disabled while loading.
setScenarioName(name) ==
    /\ Mounted(panel)
    /\ Render(app, fileUpload, [panel EXCEPT !.scenarioName = name])
    /\ UNCHANGED <<backend, now, requests>>

\* The values the three sliders are dragged to, in whole percents.
SliderValues == {0, 20}

\* The demand, capacity and cost sliders.
setDemandChange(value) ==
    /\ Mounted(panel)
    /\ Render(app, fileUpload, [panel EXCEPT !.demandChange = value])
    /\ UNCHANGED <<backend, now, requests>>

setCapacityChange(value) ==
    /\ Mounted(panel)
    /\ Render(app, fileUpload, [panel EXCEPT !.capacityChange = value])
    /\ UNCHANGED <<backend, now, requests>>

setCostChange(value) ==
    /\ Mounted(panel)
    /\ Render(app, fileUpload, [panel EXCEPT !.costChange = value])
    /\ UNCHANGED <<backend, now, requests>>

\* The route-blockage switch.
setRouteBlockage ==
    /\ Mounted(panel)
    /\ Render(app, fileUpload, [panel EXCEPT !.routeBlockage = ~@])
    /\ UNCHANGED <<backend, now, requests>>

\* handleRunScenario up to its fetch: the button is enabled only when not
\* loading and the trimmed name is not empty; loading is set and body is sent.
handleRunScenario ==
    /\ Mounted(panel)
    /\ ~app.loading
    /\ Trim(panel.scenarioName) # ""
    /\ Len(app.scenarioResults) < MaxScenarioRuns
    /\ Render([app EXCEPT !.loading = TRUE], fileUpload, panel)
    /\ requests' = [requests EXCEPT !.run = RequestBody(panel)]
    /\ UNCHANGED <<backend, now>>

\* The answers of POST /run-scenario that parse as JSON.
RunAnswers ==
    { EmptyObject, [results |-> [routing |-> [total_cost |-> F(2890, 50)]]] }

\* handleScenarioRun of App.
handleScenarioRun(a, scenarioResult) ==
    [a EXCEPT !.scenarioResults = Append(@, scenarioResult)]

\* The response is ok with json: onScenarioRun with the result, stamped
\* Date.now(); the form is reset (in a panel that is still mounted); loading
\* is cleared.
handleRunScenarioOk(json) ==
    /\ requests.run # EmptyObject
    /\ \E timestamp \in DateNow :
          /\ Render([handleScenarioRun(app, [scenarioName |-> requests.run.name,
                                             results |-> json,
                                             timestamp |-> timestamp])
                        EXCEPT !.loading = FALSE],
                    fileUpload,
                    IF Mounted(panel) THEN IdlePanel ELSE Unmounted)
          /\ now' = timestamp
    /\ requests' = [requests EXCEPT !.run = EmptyObject]
    /\ UNCHANGED backend

\* fetch throws or the response is not ok: the form is kept, loading is cleared.
handleRunScenarioFails ==
    /\ requests.run # EmptyObject
    /\ Render([app EXCEPT !.loading = FALSE], fileUpload, panel)
    /\ requests' = [requests EXCEPT !.run = EmptyObject]
    /\ UNCHANGED <<backend, now>>

\* The frontend on its own: App's effect, FileUpload and ScenarioPanel, with
\* the answers of the HTTP backend they fetch from drawn from the answer sets.
NextPanel ==
    \/ \E json \in SummaryAnswers : dataSummaryAnswers(json)
    \/ dataSummaryFails
    \/ \E json2 \in ResultsAnswers : resultsAnswers(json2)
    \/ resultsFails
    \/ \E acceptedFiles \in Drops : onDrop(acceptedFiles)
    \/ \E index \in 1..MaxFiles : removeFile(index)
    \/ handleUpload
    \/ \E json \in UploadAnswers : handleUploadOk(json)
    \/ handleUploadFails
    \/ \E i \in 1..Len(predefinedScenarios) : loadPredefinedScenario(predefinedScenarios[i])
    \/ \E name \in TypedNames : setScenarioName(name)
    \/ \E value \in SliderValues : setDemandChange(value)
    \/ \E value \in SliderValues : setCapacityChange(value)
    \/ \E value \in SliderValues : setCostChange(value)
    \/ setRouteBlockage
    \/ handleRunScenario
    \/ \E json \in RunAnswers : handleRunScenarioOk(json)
    \/ handleRunScenarioFails

PanelSpec == Init /\ [][NextPanel]_vars

\* ------------------------------------------------------------------ claims

\* array.reduce((sum, x) => sum + x, 0)
RECURSIVE SumSeq(_)
SumSeq(s) == IF s = <<>> THEN 0 ELSE Head(s) + SumSeq(Tail(s))

\* The sum of the values of an object's fields.
RECURSIVE SumFields(_, _)
SumFields(obj, fields) ==
    IF fields = {} THEN 0
    ELSE LET f == CHOOSE x \in fields : TRUE
         IN  obj[f] + SumFields(obj, fields \ {f})

\* The three metrics of a scenario result.
ScenarioMetrics(results) ==
    <<results.scenario_results.total_cost,
      results.scenario_results.capacity_utilization,
      results.scenario_results.demand_fulfillment>>

\* The stored dataset, as the four queries of runScenario would read it now.
StoredData ==
    [locations |-> locations, demandData |-> demandData,
     capacityData |-> capacityData, costData |-> costData]

\* C1 (as claimed): two completed runScenario calls with identical scenarioData
\* against the same stored dataset (under RunsSpec no upload changes it)
\* return the same total_cost, capacity_utilization and demand_fulfillment.
C1_RerunIdentical ==
    \A c1, c2 \in Callers :
        ( /\ call[c1].pc = "done"
          /\ call[c2].pc = "done"
          /\ call[c1].scenarioData = call[c2].scenarioData )
        => ScenarioMetrics(call[c1].results) = ScenarioMetrics(call[c2].results)

\* A call that is between its invocation and its return or failure.
InFlight(c) == call[c].pc \notin {"idle", "done", "failed"}

\* C2 (as claimed): of two runScenario calls in flight together with the same
\* scenario over the same stored dataset, at most one has performed the
\* computation (holds a result of its own still to be saved), so that the pair
\* produces one scenarioResults row and one result.
C2_SingleFlight ==
    \A c1, c2 \in Callers :
        ( /\ c1 # c2
          /\ InFlight(c1)
          /\ InFlight(c2)
          /\ call[c1].scenarioName = call[c2].scenarioName
          /\ call[c1].scenarioData = call[c2].scenarioData )
        => ~(call[c1].pc = "save" /\ call[c2].pc = "save")

\* C3: the step that calls applyMLScenarioModifications leaves the data
\* argument as it was: the locations, demand, capacity and cost arrays the
\* call read, and every record in them, have the field values they had before.
C3_InputNotMutated ==
    [][ \A c \in Callers :
          (call[c].pc = "apply" /\ call'[c].pc = "save")
          => /\ call'[c].locations = call[c].locations
             /\ call'[c].demandData = call[c].demandData
             /\ call'[c].capacityData = call[c].capacityData
             /\ call'[c].costData = call[c].costData ]_vars

\* C3 witness: a call has applied a truthy demand multiplier to a non-empty
\* demand array, and the change shows in the derived snapshot.
C3_Witness ==
    \E c \in Callers :
        /\ call[c].pc = "save"
        /\ TruthyField(call[c].scenarioData, "demand_multiplier")
        /\ call[c].demandData = processDemandClusterFile
        /\ call[c].modifiedData.demandData # call[c].demandData

\* Whether derived holds base's records in the same number and order, with
\* field key of each equal to the base value times multiplier.
ScaledBy(derived, base, key, multiplier) ==
    /\ Len(derived) = Len(base)
    /\ \A i \in 1..Len(base) :
          /\ derived[i][key] = Mul(base[i][key], multiplier)
          /\ derived[i].sheet = base[i].sheet

\* C4 (as claimed): for every multiplier supplied in scenarioData, zero
\* included, the derived snapshot holds the same records in the same order
\* with demand, capacity and cost each multiplied by its multiplier.
C4_MultipliersScale ==
    \A c \in Callers :
        call[c].pc = "save" =>
            LET sd == call[c].scenarioData
                md == call[c].modifiedData
            IN  /\ Has(sd, "demand_multiplier") =>
                      ScaledBy(md.demandData, call[c].demandData, "demand", sd.demand_multiplier)
                /\ Has(sd, "capacity_multiplier") =>
                      ScaledBy(md.capacityData, call[c].capacityData, "capacity",
                               sd.capacity_multiplier)
                /\ Has(sd, "cost_multiplier") =>
                      ScaledBy(md.costData, call[c].costData, "cost", sd.cost_multiplier)

\* C5 (as claimed): the derived snapshot of a scenario whose route-blockage
\* flag is set differs from the derived snapshot of the same scenario without
\* the flag.
C5_BlockageChangesSnapshot ==
    \A c \in Callers :
        ( /\ call[c].pc = "save"
          /\ Has(call[c].scenarioData, "route_blockage")
          /\ call[c].scenarioData.route_blockage )
        => call[c].modifiedData #
              applyMLScenarioModifications(
                  DataArgument(c),
                  [call[c].scenarioData EXCEPT !.route_blockage = FALSE]).modifiedData

\* |a - b| <= tolerance
Within(a, b, tolerance) == a - b <= tolerance /\ b - a <= tolerance

\* C6 (as claimed): a scenario with all three multipliers 1.0 and no blockage
\* returns total_cost, capacity_utilization and demand_fulfillment within
\* tolerance (one hundredth) of the stored baseline result's metrics.
C6_IdentityReproducesBaseline ==
    \A c \in Callers :
        ( /\ call[c].pc \in {"save", "done"}
          /\ call[c].scenarioData =
                [demand_multiplier |-> F(1, 0), capacity_multiplier |-> F(1, 0),
                 cost_multiplier |-> F(1, 0), route_blockage |-> FALSE]
          /\ optimizationResults # <<>> )
        => LET metrics == getOptimizationResults.metrics
               scenario == call[c].results.scenario_results
           IN  /\ Within(scenario.total_cost, metrics.total_cost, 1)
               /\ Within(scenario.capacity_utilization, metrics.capacity_utilization, 1)
               /\ Within(scenario.demand_fulfillment, metrics.demand_fulfillment, 1)

\* Total capacity covers total demand in the snapshot scenarioData derives
\* from the stored dataset.
Feasible(scenarioData) ==
    LET derived == applyMLScenarioModifications(StoredData, scenarioData).modifiedData
    IN  SumSeq(Map(LAMBDA r : r.capacity, derived.capacityData))
           >= SumSeq(Map(LAMBDA r : r.demand, derived.demandData))

\* C7 (as claimed): of two completed runs over the same stored dataset whose
\* scenarios differ only in the demand multiplier, both feasible, the run with
\* the larger multiplier returns a total_cost that is not lower.
C7_DemandMonotone ==
    \A c1, c2 \in Callers :
        ( /\ call[c1].pc = "done"
          /\ call[c2].pc = "done"
          /\ [call[c1].scenarioData EXCEPT !.demand_multiplier = 0]
                = [call[c2].scenarioData EXCEPT !.demand_multiplier = 0]
          /\ call[c1].scenarioData.demand_multiplier <= call[c2].scenarioData.demand_multiplier
          /\ Feasible(call[c1].scenarioData)
          /\ Feasible(call[c2].scenarioData) )
        => call[c1].results.scenario_results.total_cost
              <= call[c2].results.scenario_results.total_cost

\* C8: every result of a run with demand multiplier 1.4 has a total_cost
\* strictly above the total_cost of the baseline metrics, so scenario minus
\* baseline is not negative.
C8_PeakCostAboveBaseline ==
    \A c \in Callers :
        ( /\ call[c].pc \in {"save", "done"}
          /\ call[c].scenarioData.demand_multiplier = F(1, 40)
          /\ optimizationResults # <<>> )
        => /\ call[c].results.scenario_results.total_cost
                 > getOptimizationResults.metrics.total_cost
           /\ call[c].results.scenario_results.total_cost
                 - getOptimizationResults.metrics.total_cost >= 0

\* C8 witness: a run with demand multiplier 1.4 that read the sample dataset
\* holds its result, and a baseline result is stored.
C8_Witness ==
    \E c \in Callers :
        /\ call[c].pc = "save"
        /\ call[c].scenarioData.demand_multiplier = F(1, 40)
        /\ call[c].demandData = processDemandClusterFile
        /\ call[c].capacityData = processCapacityClusteredFile
        /\ optimizationResults # <<>>

\* C9 (as claimed): for every stored scenario result, the dashboard's
\* comparison against the baseline reports a total_cost delta equal to the
\* scenario's total_cost minus the baseline's, and likewise a
\* capacity_utilization delta and a demand_fulfillment delta.
C9_ComparisonDeltas ==
    \A i \in 1..Len(getScenarioResults) :
        optimizationResults # <<>> =>
            LET scenario == getScenarioResults[i]
                baseline == getOptimizationResults
                row == ScenarioComparisonRow(scenario, baseline)
                own == scenario.results.scenario_results
            IN  /\ row.costDiff = own.total_cost - baseline.metrics.total_cost
                /\ Has(row, "capacityDiff")
                /\ Has(row, "demandFulfillmentDiff")
                /\ Has(row, "capacityDiff") =>
                      row.capacityDiff =
                          own.capacity_utilization - baseline.metrics.capacity_utilization
                /\ Has(row, "demandFulfillmentDiff") =>
                      row.demandFulfillmentDiff =
                          own.demand_fulfillment - baseline.metrics.demand_fulfillment

\* C10 (as claimed): in the allocation of the stored baseline result, the
\* quantities allocated from a warehouse sum to at most the capacity in that
\* warehouse's capacity record.
C10_AllocationWithinCapacity ==
    optimizationResults # <<>> =>
        LET allocations == getOptimizationResults.allocation.allocations
        IN  \A i \in 1..Len(capacityData) :
                LET w == capacityData[i].locationId
                IN  w \in DOMAIN allocations =>
                        SumFields(allocations[w], DOMAIN allocations[w])
                            <= capacityData[i].capacity

\* The quantity allocs sends from warehouse w, over all its stores.
AllocatedFrom(allocs, w) == SumFields(allocs[w], DOMAIN allocs[w])

\* The quantity allocs sends to store s, over all warehouses.
AllocatedTo(allocs, s) ==
    SumFields([w \in DOMAIN allocs |-> IF s \in DOMAIN allocs[w] THEN allocs[w][s] ELSE 0],
              DOMAIN allocs)

\* The sum of all quantities of allocs.
AllocatedTotal(allocs) ==
    SumFields([w \in DOMAIN allocs |-> AllocatedFrom(allocs, w)], DOMAIN allocs)

\* 100 * part / whole as a number in hundredths, rounded down; part and whole
\* are in hundredths and whole is at least 1.00.
Percent(part, whole) == ((part \div 100) * F(100, 0)) \div (whole \div 100)

Min(a, b) == IF a <= b THEN a ELSE b

\* C11: in the allocation of the stored baseline result, whose status is
\* Optimal, every store with a demand record is allocated at least that
\* demand, and every store of the forecast at least its total_demand.
C11_AllocationCoversDemand ==
    optimizationResults # <<>> =>
        LET baseline == getOptimizationResults
            allocs == baseline.allocation.allocations
            forecast == baseline.demand_forecast.total_demand
        IN  /\ baseline.allocation.status = "Optimal"
            /\ \A i \in 1..Len(demandData) :
                  AllocatedTo(allocs, demandData[i].locationId) >= demandData[i].demand
            /\ \A s \in DOMAIN forecast : AllocatedTo(allocs, s) >= forecast[s]

\* C11 witness: the baseline is stored next to the ingested demand records,
\* and store_1 is allocated exactly its forecast from two warehouses.
C11_Witness ==
    /\ optimizationResults # <<>>
    /\ demandData = processDemandClusterFile
    /\ LET baseline == getOptimizationResults
       IN  /\ AllocatedTo(baseline.allocation.allocations, "store_1")
                 = baseline.demand_forecast.total_demand.store_1
           /\ AllocatedTo(baseline.allocation.allocations, "store_1")
                 > baseline.allocation.allocations.warehouse_1.store_1

\* C12 (as claimed): a run whose derived snapshot has total capacity strictly
\* below total demand holds a result whose status is Infeasible.
C12_InfeasibleReported ==
    \A c \in Callers :
        ( /\ call[c].pc = "save"
          /\ SumSeq(Map(LAMBDA r : r.capacity, call[c].modifiedData.capacityData))
                < SumSeq(Map(LAMBDA r : r.demand, call[c].modifiedData.demandData)) )
        => LET results == call[c].results
           IN  \/ Has(results, "status") /\ results.status = "Infeasible"
               \/ /\ Has(results.scenario_results, "status")
                  /\ results.scenario_results.status = "Infeasible"

\* C13 (as claimed): with cost data ingested, every positive quantity of the
\* stored baseline allocation is on a pair (w, s) that has a cost record from
\* w to s.
C13_AllocationOnlyOnCostedPairs ==
    (optimizationResults # <<>> /\ costData # <<>>) =>
        LET allocs == getOptimizationResults.allocation.allocations
        IN  \A w \in DOMAIN allocs : \A s \in DOMAIN allocs[w] :
                allocs[w][s] > 0 =>
                    \E i \in 1..Len(costData) :
                        /\ costData[i].fromLocationId = w
                        /\ costData[i].toLocationId = s

\* C14 (as claimed): with capacity records ingested, the capacity_utilization
\* of the stored baseline allocation, and its copy in metrics, is 100 times
\* the allocated total over the total capacity, to the one decimal reported.
C14_CapacityUtilizationComputed ==
    (optimizationResults # <<>> /\ capacityData # <<>>) =>
        LET baseline == getOptimizationResults
            computed == Percent(AllocatedTotal(baseline.allocation.allocations),
                                SumSeq(Map(LAMBDA r : r.capacity, capacityData)))
        IN  /\ Within(baseline.allocation.capacity_utilization, computed, F(0, 10))
            /\ baseline.metrics.capacity_utilization = baseline.allocation.capacity_utilization

\* C15 (as claimed): the metrics.total_cost of the stored baseline result is
\* the allocation's objective_value plus the routing's total_cost.
C15_TotalCostIsObjectivePlusRouting ==
    optimizationResults # <<>> =>
        LET baseline == getOptimizationResults
        IN  baseline.metrics.total_cost
                = baseline.allocation.objective_value + baseline.routing.total_cost

\* C16 (as claimed): the metrics.demand_fulfillment of the stored baseline
\* result is min(100, 100 * allocated total / forecast total), to the one
\* decimal reported.
C16_DemandFulfillmentComputed ==
    optimizationResults # <<>> =>
        LET baseline == getOptimizationResults
            forecast == baseline.demand_forecast.total_demand
            computed == Min(F(100, 0),
                            Percent(AllocatedTotal(baseline.allocation.allocations),
                                    SumFields(forecast, DOMAIN forecast)))
        IN  Within(baseline.metrics.demand_fulfillment, computed, F(0, 10))

\* C17 (as claimed): if in the stored baseline allocation some warehouse with
\* a capacity record is allocated more than its capacity, or some store with a
\* demand record less than its demand, metrics.constraint_violations is not
\* empty.
C17_ViolationsComputed ==
    optimizationResults # <<>> =>
        LET baseline == getOptimizationResults
            allocs == baseline.allocation.allocations
            overshoot ==
                \E i \in 1..Len(capacityData) :
                    /\ capacityData[i].locationId \in DOMAIN allocs
                    /\ AllocatedFrom(allocs, capacityData[i].locationId)
                          > capacityData[i].capacity
            shortfall ==
                \E i \in 1..Len(demandData) :
                    AllocatedTo(allocs, demandData[i].locationId) < demandData[i].demand
        IN  (overshoot \/ shortfall) => baseline.metrics.constraint_violations # <<>>

\* C18: in the routing of the stored baseline result, the quantity every stop
\* delivers is at most the quantity the same result's allocation sends to the
\* stop's store.
C18_StopsWithinAllocation ==
    optimizationResults # <<>> =>
        LET baseline == getOptimizationResults
            routes == baseline.routing.routes
        IN  \A r \in 1..Len(routes) : \A k \in 1..Len(routes[r].stops) :
                routes[r].stops[k].demand
                    <= AllocatedTo(baseline.allocation.allocations,
                                   routes[r].stops[k].location_id)

\* C18 witness: a stored baseline whose routing has a stop that delivers
\* exactly the allocation of its store (store_5) and one that delivers less
\* (store_4).
C18_Witness ==
    /\ optimizationResults # <<>>
    /\ LET baseline == getOptimizationResults
           stops == baseline.routing.routes[2].stops
       IN  /\ stops[2].location_id = "store_5"
           /\ stops[2].demand = AllocatedTo(baseline.allocation.allocations, "store_5")
           /\ stops[1].demand < AllocatedTo(baseline.allocation.allocations, "store_4")

\* C19 (as claimed): in the routing of the stored baseline result, with each
\* route's cost its fuel_cost plus its driver_cost, the routing's total_cost,
\* total_distance and total_time are the sums of the routes' costs, distances
\* and times.
C19_RoutingTotalsAreSums ==
    optimizationResults # <<>> =>
        LET routing == getOptimizationResults.routing
        IN  /\ routing.total_cost
                  = SumSeq(Map(LAMBDA r : r.fuel_cost + r.driver_cost, routing.routes))
            /\ routing.total_distance = SumSeq(Map(LAMBDA r : r.total_distance, routing.routes))
            /\ routing.total_time = SumSeq(Map(LAMBDA r : r.total_time, routing.routes))

\* C20: in the forecast of the stored baseline result the lower-bound, point
\* and upper-bound sequences have one length, every value is non-negative and
\* lower[i] <= forecast[i] <= upper[i] for every period i.
C20_ForecastBracketed ==
    optimizationResults # <<>> =>
        LET demand_forecast == getOptimizationResults.demand_forecast
            forecast == demand_forecast.ensemble_forecast
            lower == demand_forecast.confidence_intervals.lower_bound
            upper == demand_forecast.confidence_intervals.upper_bound
        IN  /\ Len(lower) = Len(forecast)
            /\ Len(upper) = Len(forecast)
            /\ \A i \in 1..Len(forecast) : forecast[i] >= 0
            /\ \A i \in 1..Len(lower) : lower[i] >= 0
            /\ \A i \in 1..Len(upper) : upper[i] >= 0
            /\ \A i \in 1..Len(forecast) :
                  i \in DOMAIN lower /\ i \in DOMAIN upper =>
                      lower[i] <= forecast[i] /\ forecast[i] <= upper[i]

\* C20 witness: a stored baseline with a twelve-period forecast whose bounds
\* are strictly apart from the point forecast in the first and last period.
C20_Witness ==
    /\ optimizationResults # <<>>
    /\ LET demand_forecast == getOptimizationResults.demand_forecast
       IN  /\ Len(demand_forecast.ensemble_forecast) = 12
           /\ demand_forecast.confidence_intervals.lower_bound[1]
                 < demand_forecast.ensemble_forecast[1]
           /\ demand_forecast.ensemble_forecast[12]
                 < demand_forecast.confidence_intervals.upper_bound[12]

\* Whether a matrix has one row per location id and rows of one length.
WellFormedMatrix(m) ==
    /\ Len(m.data) = Len(m.locationIds)
    /\ \A i \in 1..Len(m.data) : Len(m.data[i]) = Len(m.data[1])

\* C21 (as claimed): no row of the matrices table holds a matrix whose rows
\* have mismatched lengths or whose size disagrees with its locationIds; such
\* a matrix is rejected at ingestion.
C21_MatricesValidated ==
    \A i \in 1..Len(matrices) : WellFormedMatrix(matrices[i])

\* The locationIds of the stored locations.
StoredLocationIds == { locations[i].locationId : i \in 1..Len(locations) }

\* C22 (as claimed): a processUploadedFiles call gets to generating
\* optimization results, or returns, only if every stored capacity, demand
\* and cost record names stored locations.
C22_ReferentialIntegrityChecked ==
    \A u \in Uploaders :
        upload[u].pc \in {"generate", "done"} =>
            /\ \A i \in 1..Len(capacityData) : capacityData[i].locationId \in StoredLocationIds
            /\ \A i \in 1..Len(demandData) : demandData[i].locationId \in StoredLocationIds
            /\ \A i \in 1..Len(costData) :
                  /\ costData[i].fromLocationId \in StoredLocationIds
                  /\ costData[i].toLocationId \in StoredLocationIds

\* C23: the scenarioResults table holds exactly one row per runScenario call
\* that returned, carrying that call's name, scenarioData and results; a call
\* that failed has no row.
C23_NoRowForFailedRun ==
    /\ Len(scenarioResults) = Cardinality({ c \in Callers : call[c].pc = "done" })
    /\ \A i \in 1..Len(scenarioResults) :
          /\ \E c \in Callers :
                /\ call[c].pc = "done"
                /\ scenarioResults[i].scenarioName = call[c].scenarioName
                /\ scenarioResults[i].scenarioData = call[c].scenarioData
                /\ scenarioResults[i].results = call[c].results
          /\ scenarioResults[i].results \in runMLOptimizationWithData(EmptyObject)

\* C23 witness: one call failed, another returned, and the table holds the
\* one row of the call that returned.
C23_Witness ==
    \E c1, c2 \in Callers :
        /\ call[c1].pc = "failed"
        /\ call[c2].pc = "done"
        /\ Len(scenarioResults) = 1
        /\ scenarioResults[1].results = call[c2].results

\* Whether table before is a prefix of table after.
Extends(after, before) ==
    /\ Len(after) >= Len(before)
    /\ SubSeq(after, 1, Len(before)) = before

\* C24: every step, clearExistingData included, leaves the rows of
\* scenarioResults and optimizationResults in place and unchanged, adding rows
\* at the end only, and every row carries a timestamp.
C24_ResultsAppendOnly ==
    [][ /\ Extends(optimizationResults', optimizationResults)
        /\ Extends(scenarioResults', scenarioResults)
        /\ \A i \in 1..Len(optimizationResults') : Has(optimizationResults'[i], "timestamp")
        /\ \A i \in 1..Len(scenarioResults') : Has(scenarioResults'[i], "timestamp") ]_vars

\* C24 witness: clearExistingData has just run in an upload while an
\* optimization result and a scenario result, stored before it was
\* invoked, are still in their tables.
C24_Witness ==
    \E u \in Uploaders :
        /\ upload[u].pc = "file"
        /\ upload[u].index = 1
        /\ Len(optimizationResults) = 1
        /\ Len(scenarioResults) = 1
        /\ loadsDone = 1

\* C25 (as claimed): the locations table holds at most one row per locationId.
C25_LocationIdsUnique ==
    \A i, j \in 1..Len(locations) :
        locations[i].locationId = locations[j].locationId => i = j

\* The four data tables after one loop iteration of processUploadedFiles for
\* item, from the tables in data.
IngestItem(data, item) ==
    IF item.storageId \notin StoredIds THEN data
    ELSE IF Includes(item.fileName, "GeoLocations")
    THEN [data EXCEPT !.locations = @ \o processGeoLocationsFile]
    ELSE IF Includes(item.fileName, "CapacityClustered")
    THEN [data EXCEPT !.capacityData = @ \o processCapacityClusteredFile]
    ELSE IF Includes(item.fileName, "DemandCluster")
    THEN [data EXCEPT !.demandData = @ \o processDemandClusterFile]
    ELSE IF Includes(item.fileName, "DistanceCluster") THEN data
    ELSE IF Includes(item.fileName, "Time") THEN data
    ELSE IF Includes(item.fileName, "CostCluster")
    THEN [data EXCEPT !.costData = @ \o processCostClusterFile]
    ELSE IF Includes(item.fileName, "CostsMWC-Clustered")
    THEN [data EXCEPT !.costData = @ \o processCostsMWCFile]
    ELSE data

\* The four data tables after clearExistingData and the first n items of list.
RECURSIVE DatasetAfter(_, _)
DatasetAfter(list, n) ==
    IF n = 0
    THEN [locations |-> <<>>, demandData |-> <<>>, capacityData |-> <<>>, costData |-> <<>>]
    ELSE IngestItem(DatasetAfter(list, n - 1), list[n])

\* Every content the four data tables have at some point in time: empty, or
\* what an upload has stored after some number of its files.
DatasetStates ==
    UNION { { DatasetAfter(list, n) : n \in 0..Len(list) } : list \in UploadLists }

\* C26 (as claimed): the locations, demand, capacity and cost arrays a
\* runScenario call has read are together the content the stored dataset had
\* at one point in time.
C26_ReadsOneSnapshot ==
    \A c \in Callers :
        call[c].pc \in {"apply", "save"} => DataArgument(c) \in DatasetStates

\* C27 (as claimed): the request handleRunScenario has sent for the form as
\* it stands differs from the request it would send for a form that differs
\* in the demand, capacity or cost change or in the route-blockage switch
\* alone.
C27_RequestEncodesAllControls ==
    (Mounted(panel) /\ requests.run # EmptyObject /\ requests.run = RequestBody(panel)) =>
        /\ \A value \in SliderValues :
              /\ value # panel.demandChange =>
                    RequestBody([panel EXCEPT !.demandChange = value]) # requests.run
              /\ value # panel.capacityChange =>
                    RequestBody([panel EXCEPT !.capacityChange = value]) # requests.run
              /\ value # panel.costChange =>
                    RequestBody([panel EXCEPT !.costChange = value]) # requests.run
        /\ RequestBody([panel EXCEPT !.routeBlockage = ~panel.routeBlockage]) # requests.run

\* C28 (as claimed): when a processUploadedFiles call has returned, the
\* cost_records of its dataSummary is the number of cost records it stored.
C28_CostRecordsCounted ==
    \A u \in Uploaders :
        upload[u].pc = "done" =>
            upload[u].returned.dataSummary.cost_records = Len(costData)

\* C29 (as claimed, for the first processUploadedFiles call of a deployment,
\* before which the five data tables are empty): when the call has failed,
\* the five tables are as they were before it.
C29_FailedUploadLeavesTables ==
    \A u \in Uploaders :
        (uploadsStarted = 1 /\ upload[u].pc = "failed") =>
            tables = << <<>>, <<>>, <<>>, <<>>, <<>> >>

\* mlResults with only the sub-results named in keys.
PartialResults(keys) == [k \in keys |-> mlResults[k]]

\* C30: getOptimizationResults returns null exactly when optimizationResults
\* holds no row, and otherwise the demandForecast, allocation, routing and
\* metrics of the row saved last (the last in creation order, which no row's
\* timestamp exceeds); and the row saveOptimizationResults builds holds an
\* empty object for every sub-result its argument lacks and the sub-result
\* itself otherwise.
C30_LatestResultsReturned ==
    /\ getOptimizationResults = <<>> <=> optimizationResults = <<>>
    /\ optimizationResults # <<>> =>
          LET last == optimizationResults[Len(optimizationResults)]
          IN  /\ \A j \in 1..Len(optimizationResults) :
                    optimizationResults[j].timestamp <= last.timestamp
              /\ getOptimizationResults =
                    [demand_forecast |-> last.demandForecast,
                     allocation |-> last.allocation,
                     routing |-> last.routing,
                     metrics |-> last.metrics]
    /\ \A keys \in SUBSET {"demand_forecast", "allocation", "routing", "metrics"} :
          LET row == OptimizationResultsRow(PartialResults(keys), 1)
              saved(field, key) ==
                  row[field] = IF key \in keys THEN mlResults[key] ELSE EmptyObject
          IN  /\ saved("demandForecast", "demand_forecast")
              /\ saved("allocation", "allocation")
              /\ saved("routing", "routing")
              /\ saved("metrics", "metrics")

\* C30 witness: two results have been saved within one millisecond, and the
\* query returns a result.
C30_Witness ==
    /\ Len(optimizationResults) = 2
    /\ optimizationResults[1].timestamp = optimizationResults[2].timestamp
    /\ getOptimizationResults # <<>>

====
